---- MODULE Spec2Model ----
(***************************************************************************)
(* A model of filmalize: the Container/Stream data model and the ffmpeg    *)
(* command builder of filmalize/models.py, the progress query that reads   *)
(* the tail of ffmpeg's -progress report, and the polling loop of          *)
(* filmalize/cli.py (convert).                                             *)
(*                                                                         *)
(* The specifications share the variables:                                 *)
(*   SpecSel    one Container: construction and the selected setter;       *)
(*   SpecCmd    one Container: construction, add_subtitle_file and         *)
(*              build_command;                                             *)
(*   SpecJob    one launched Container, its ffmpeg process writing the     *)
(*              report, and a caller reading Container.progress;           *)
(*   SpecBatch  the polling loop of cli.convert over several Containers;   *)
(*   SpecProbe  the two ways a Container is made: from_dict and __init__;   *)
(*   SpecOpt    one video Stream and its build_options;                     *)
(*   SpecEq     two Containers compared with EqualityMixin.__eq__;          *)
(*   SpecLife   one Container, any sequence of convert and progress calls.  *)
(***************************************************************************)
EXTENDS Integers, Sequences, FiniteSets, TLC

VARIABLES
    \* ---- one Container (SpecSel)
    cstate,          \* "new" before __init__, "live" after it, "failed" when it raised
    streams,         \* Container.streams: list of Stream
    selected,        \* Container._selected
    subtitle_files,  \* Container.subtitle_files
    option_summary,  \* Stream.option_summary, by position in streams
    command,         \* the value build_command() returned, when it is the operation just performed
    lastOp,          \* history: the operation just performed on the Container
    lastInput,       \* history: the list given to __init__, or the list an assignment stored;
                     \* in SpecEq the two Containers last compared
    lastAt,          \* history: the position in its list at which an assignment raised
    calls,           \* history: build_command calls made since the Container last changed
    \* ---- jobs (SpecJob, SpecBatch): functions over the containers of the run
    microseconds,    \* Container.microseconds
    process,         \* Container.process: "none", "running" (poll() is None), "exited"
    report,          \* the contents of Container.temp_file, as written by ffmpeg
    pending,         \* the part of ffmpeg's current line not yet written
    lastOut,         \* the last out_time_ms value ffmpeg started to write
    result,          \* history: outcome of the last Container.progress query
    prevResult,      \* history: outcome of the query before that
    raisedCount,     \* history: number of ProgressFinishedError raised
    \* ---- the polling loop of cli.convert (SpecBatch)
    pc,              \* position of cli.convert
    running,         \* the list `running`
    it,              \* the index held by the iterator of `for container in running`
    total_progress,  \* the local total_progress
    progress,        \* the local progress
    barJob,          \* last value given to container.pr_bar.update, per container
    barTotal,        \* last value given to pr_bar.update
    errMessages,     \* err.messages, as the list of containers written about
    tickStart,       \* history: the list `running` when the tick began
    polled,          \* history: containers queried in this tick
    counted,         \* history: containers whose value was added to total_progress in this tick
    jobMono,         \* history: no container.progress value so far was below the one before it
    \* ---- making a Container (SpecProbe)
    info,            \* the duration entry of ffprobe's format section, or Missing
    duration,        \* Container.duration
    \* ---- comparing Containers (SpecEq)
    objs,            \* the __dict__ of each of two Containers
    eqResult         \* the outcome of the last comparison

selVars   == <<cstate, streams, selected, subtitle_files, option_summary, command, lastOp,
              lastInput, lastAt, calls>>
jobVars   == <<microseconds, process, report, pending, lastOut, result, prevResult, raisedCount>>
batchVars == <<pc, running, it, total_progress, progress, barJob, barTotal, errMessages,
               tickStart, polled, counted, jobMono>>
probeVars == <<info, duration>>
eqVars    == <<objs, eqResult>>
vars      == <<selVars, jobVars, batchVars, probeVars, eqVars>>

----------------------------------------------------------------------------
(* Bounds of the model *)

MaxStreams == 2      \* longest Container.streams
MaxSel == 2          \* longest list assigned to Container.selected
MaxSubs == 1         \* most subtitle files attached
MaxCalls == 2        \* successive build_command calls that are counted

----------------------------------------------------------------------------
(* filmalize.defaults: the module is imported by models.py and is not part *)
(* of the sources at hand; the values are those the documentation names.   *)

C_VIDEO == "h264"
C_AUDIO == "aac"
C_SUBS == "mov_text"
PRESET == "slow"
CRF == 18
BITRATE == 384

None == -1           \* Python's None in an integer field

----------------------------------------------------------------------------
(* Command tokens.  A token is <<prefix, number, suffix>>: the text of a   *)
(* str.format call with its one integer argument kept as an integer.       *)

NoNum == -1
S(str) == <<str, NoNum, "">>
Fmt(pre, n, post) == <<pre, n, post>>

----------------------------------------------------------------------------
(* Stream *)

\* Python truth of an optional number: None and 0 are false
Truthy(n) == n /= None /\ n /= 0

\* Stream.__init__: falsy custom values are stored as None
Stream(index, stream_type, codec, custom_crf, custom_bitrate, label_bitrate) ==
    [index |-> index, type |-> stream_type, codec |-> codec,
     custom_crf |-> IF Truthy(custom_crf) THEN custom_crf ELSE None,
     custom_bitrate |-> IF Truthy(custom_bitrate) THEN custom_bitrate ELSE None,
     label_bitrate |-> IF Truthy(label_bitrate) THEN label_bitrate ELSE None]

\* Stream.build_options: the tokens and the option_summary it sets
BuildOptions(s, number) ==
    IF s.type = "video" THEN
        IF Truthy(s.custom_crf) \/ s.codec /= C_VIDEO
        THEN LET crf == IF Truthy(s.custom_crf) THEN s.custom_crf ELSE CRF
             IN  [options |-> <<Fmt("-c:v:", number, ""), S("libx264"), S("-preset"),
                                S(PRESET), S("-crf"), Fmt("", crf, ""), S("-pix_fmt"),
                                S("yuv420p")>>,
                  summary |-> <<"transcode", C_VIDEO, "crf", crf>>]
        ELSE [options |-> <<Fmt("-c:v:", number, ""), S("copy")>>,
              summary |-> <<"copy", "", "", None>>]
    ELSE IF s.type = "audio" THEN
        IF Truthy(s.custom_bitrate) \/ s.codec /= C_AUDIO
        THEN LET bitrate == IF Truthy(s.custom_bitrate) THEN s.custom_bitrate
                            ELSE IF Truthy(s.label_bitrate) THEN s.label_bitrate
                            ELSE BITRATE
             IN  [options |-> <<Fmt("-c:a:", number, ""), S(C_AUDIO),
                                Fmt("-b:a:", number, ""), Fmt("", bitrate, "k")>>,
                  summary |-> <<"transcode", C_AUDIO, "bitrate", bitrate>>]
        ELSE [options |-> <<Fmt("-c:a:", number, ""), S("copy")>>,
              summary |-> <<"copy", "", "", None>>]
    ELSE IF s.type = "subtitle" THEN
        IF s.codec = C_SUBS
        THEN [options |-> <<Fmt("-c:s:", number, ""), S("copy")>>,
              summary |-> <<"copy", "", "", None>>]
        ELSE [options |-> <<Fmt("-c:s:", number, ""), S(C_SUBS)>>,
              summary |-> <<"transcode", C_SUBS, "", None>>]
    ELSE [options |-> <<>>, summary |-> <<"unchanged", "", "", None>>]

\* SubtitleFile.__init__: the encoding given, or the one guess_encoding returns
SubtitleFile(file_name, encoding) ==
    [file_name |-> file_name, encoding |-> encoding, options |-> <<S(C_SUBS)>>]

----------------------------------------------------------------------------
(* Container: selection *)

OutputTypes == {"audio", "video", "subtitle"}

\* Container.streams_dict: a dict comprehension, the last stream of an index wins
HasIndex(strs, index) == \E p \in 1..Len(strs) : strs[p].index = index
StreamsDict(strs, index) ==
    LET p == CHOOSE q \in 1..Len(strs) :
                 /\ strs[q].index = index
                 /\ \A r \in 1..Len(strs) : strs[r].index = index => r <= q
    IN  strs[p]

\* a faulty sort that leaves the list as it was given
SortedAsGiven(index_list) == index_list

\* sorted(index_list)
Sorted(index_list) == SortSeq(index_list, <)

\* the checks of the setter's for loop on one index
IndexAccepted(strs, index) ==
    /\ HasIndex(strs, index)
    /\ StreamsDict(strs, index).type \in OutputTypes

\* a faulty setter that stores each index as soon as it has passed the checks
SelectedSetterEager(cur, strs, index_list) ==
    LET bad == {p \in 1..Len(index_list) : ~IndexAccepted(strs, index_list[p])}
        first == CHOOSE p \in bad : \A q \in bad : p <= q
    IN  IF bad = {}
        THEN [raised |-> FALSE, at |-> 0, selected |-> Sorted(index_list)]
        ELSE [raised |-> TRUE, at |-> first,
              selected |-> Sorted(SubSeq(index_list, 1, first - 1))]

\* Container.selected (setter): the value of _selected afterwards, whether
\* ValueError was raised and at which position of the list the loop raised it
SelectedSetter(cur, strs, index_list) ==
    LET bad == {p \in 1..Len(index_list) : ~IndexAccepted(strs, index_list[p])}
    IN  IF bad /= {}
        THEN [raised |-> TRUE, at |-> CHOOSE p \in bad : \A q \in bad : p <= q,
              selected |-> cur]
        ELSE [raised |-> FALSE, at |-> 0, selected |-> Sorted(index_list)]

\* Container.default_streams: first audio and first video stream in list order
RECURSIVE DefaultFrom(_, _, _, _)
DefaultFrom(strs, p, audio, video) ==
    IF p > Len(strs) THEN <<>>
    ELSE IF ~audio /\ strs[p].type = "audio"
         THEN <<strs[p].index>> \o DefaultFrom(strs, p + 1, TRUE, video)
    ELSE IF ~video /\ strs[p].type = "video"
         THEN <<strs[p].index>> \o DefaultFrom(strs, p + 1, audio, TRUE)
    ELSE DefaultFrom(strs, p + 1, audio, video)

\* a faulty default that takes the last stream of each type
DefaultStreamsLast(strs) ==
    DefaultFrom([p \in 1..Len(strs) |-> strs[Len(strs) + 1 - p]], 1, FALSE, FALSE)

DefaultStreams(strs) == DefaultFrom(strs, 1, FALSE, FALSE)

----------------------------------------------------------------------------
(* Container.build_command *)

NoSummary == <<"None", "", "", None>>     \* Stream.option_summary = None

InSelection(sel, index) == \E p \in 1..Len(sel) : sel[p] = index

\* lines 357-359: one input per subtitle file, after its -sub_charenc
RECURSIVE SubtitleInputs(_, _)
SubtitleInputs(subs, p) ==
    IF p > Len(subs) THEN <<>>
    ELSE <<S("-sub_charenc"), S(subs[p].encoding), S("-i"), S(subs[p].file_name)>>
         \o SubtitleInputs(subs, p + 1)

\* lines 360-361: one -map per entry of selected
RECURSIVE StreamMaps(_, _)
StreamMaps(sel, p) ==
    IF p > Len(sel) THEN <<>>
    ELSE <<S("-map"), Fmt("0:", sel[p], "")>> \o StreamMaps(sel, p + 1)

\* lines 362-363: one -map per subtitle file, input index + 1
RECURSIVE SubtitleMaps(_, _)
SubtitleMaps(subs, p) ==
    IF p > Len(subs) THEN <<>>
    ELSE <<S("-map"), Fmt("", p, ":0")>> \o SubtitleMaps(subs, p + 1)

\* lines 365-368: the streams of self.streams whose index is in selected, in
\* the order of self.streams, each with the running number of its type
RECURSIVE StreamOptions(_, _, _, _)
StreamOptions(strs, sel, p, sn) ==
    IF p > Len(strs) THEN [options |-> <<>>, sn |-> sn]
    ELSE IF ~InSelection(sel, strs[p].index) THEN StreamOptions(strs, sel, p + 1, sn)
    ELSE LET type == strs[p].type
             here == BuildOptions(strs[p], sn[type]).options
             rest == StreamOptions(strs, sel, p + 1, [sn EXCEPT ![type] = @ + 1])
         IN  [options |-> here \o rest.options, sn |-> rest.sn]

\* lines 369-372: the subtitle files, continuing the subtitle number
RECURSIVE SubtitleOptions(_, _, _)
SubtitleOptions(subs, p, number) ==
    IF p > Len(subs) THEN <<>>
    ELSE <<Fmt("-c:s:", number, "")>> \o subs[p].options
         \o SubtitleOptions(subs, p + 1, number + 1)

\* Container.build_command: the list it returns
BuildCommand(strs, sel, subs) ==
    LET so == StreamOptions(strs, sel, 1, [video |-> 0, audio |-> 0, subtitle |-> 0])
    IN  <<S("ffmpeg"), S("-nostdin"), S("-progress"), S("temp_file.name"), S("-v"),
          S("error"), S("-y"), S("-i"), S("file_name")>>
        \o SubtitleInputs(subs, 1)
        \o StreamMaps(sel, 1)
        \o SubtitleMaps(subs, 1)
        \o so.options
        \o SubtitleOptions(subs, 1, so.sn.subtitle)
        \o <<S("dirname(file_name)/output_name")>>

\* a faulty build_command that calls build_options on every stream
SummariesAfterAll(strs, sel, old) ==
    [p \in 1..Len(strs) |->
        IF strs[p].type \in OutputTypes THEN BuildOptions(strs[p], 0).summary ELSE old[p]]

\* the option_summary of every stream after build_command: build_options sets
\* it on the streams it is called on
SummariesAfter(strs, sel, old) ==
    [p \in 1..Len(strs) |->
        IF InSelection(sel, strs[p].index) /\ strs[p].type \in OutputTypes
        THEN BuildOptions(strs[p], 0).summary
        ELSE old[p]]

----------------------------------------------------------------------------
(* SpecSel and SpecCmd: one Container *)

VideoCodecs == {"h264", "mpeg4"}
AudioCodecs == {"aac"}
SubtitleCodecs == {"subrip"}

\* the streams a probe reports: custom values are unset
StreamKinds(index, vcodecs) ==
    {Stream(index, "video", c, None, None, None) : c \in vcodecs}
    \cup {Stream(index, "audio", c, None, None, None) : c \in AudioCodecs}
    \cup {Stream(index, "subtitle", c, None, None, None) : c \in SubtitleCodecs}
    \cup {Stream(index, "data", "bin_data", None, None, None)}

\* lists of streams with distinct indexes 0 .. n-1, in any order
StreamLists(vcodecs) ==
    UNION {{s \in [1..n -> UNION {StreamKinds(i, vcodecs) : i \in 0..(n - 1)}] :
               \A p, q \in 1..n : p /= q => s[p].index /= s[q].index}
           : n \in 0..MaxStreams}

\* the lists a caller assigns: any indexes, one of them in no container
SelLists == UNION {[1..n -> 0..MaxStreams] : n \in 0..MaxSel}

SubtitleEncodings == {"utf-8", "latin-1"}

IdleJobs ==
    /\ microseconds = <<>> /\ process = <<>> /\ report = <<>> /\ pending = <<>>
    /\ lastOut = <<>> /\ result = <<>> /\ prevResult = <<>> /\ raisedCount = <<>>

IdleBatch ==
    /\ pc = "idle" /\ running = <<>> /\ it = 0 /\ total_progress = 0 /\ progress = 0
    /\ barJob = <<>> /\ barTotal = 0 /\ errMessages = <<>>
    /\ tickStart = <<>> /\ polled = {} /\ counted = {} /\ jobMono = TRUE

IdleProbe == info = <<>> /\ duration = 0

IdleEq == objs = <<>> /\ eqResult = "none"

InitContainer(strs) ==
    /\ cstate = "new"
    /\ streams = strs
    /\ selected = <<>>
    /\ subtitle_files = <<>>
    /\ option_summary = [p \in 1..Len(streams) |-> NoSummary]
    /\ command = <<>>
    /\ lastOp = "none"
    /\ lastInput = <<>>
    /\ lastAt = 0
    /\ calls = 0
    /\ IdleJobs /\ IdleBatch /\ IdleProbe /\ IdleEq

\* the codec of a stream plays no part in the selection: one codec per type
InitSel == \E strs \in StreamLists({"h264"}) : InitContainer(strs)

\* video streams that build_options copies and ones that it transcodes
InitCmd == \E strs \in StreamLists(VideoCodecs) : InitContainer(strs)

\* Container.__init__, lines 160-162: the selection given, or the default one
ConstructSelection(sel) ==
    /\ cstate = "new"
    /\ LET r == SelectedSetter(<<>>, streams,
                               IF sel /= <<>> THEN sel ELSE DefaultStreams(streams))
       IN  /\ cstate' = IF r.raised THEN "failed" ELSE "live"
           /\ selected' = r.selected
    /\ lastOp' = "init"
    /\ lastInput' = sel
    /\ lastAt' = 0
    /\ calls' = 0
    /\ UNCHANGED <<streams, subtitle_files, option_summary, command>>

\* Container.__init__ without a selection, or with the one given
Construct(sel) ==
    /\ ConstructSelection(sel)
    /\ UNCHANGED <<jobVars, batchVars, probeVars, eqVars>>

\* container.selected = index_list
AssignSelected(index_list) ==
    /\ cstate = "live"
    /\ LET r == SelectedSetter(selected, streams, index_list)
       IN  /\ selected' = r.selected
           /\ lastOp' = IF r.raised THEN "assign_raised" ELSE "assign"
           /\ lastInput' = IF r.raised THEN <<>> ELSE index_list
           /\ lastAt' = r.at
    /\ command' = <<>>
    /\ calls' = 0
    /\ UNCHANGED <<cstate, streams, subtitle_files, option_summary>>
    /\ UNCHANGED <<jobVars, batchVars, probeVars, eqVars>>

\* Container.add_subtitle_file
AddSubtitleFile(file_name, encoding) ==
    /\ cstate = "live"
    /\ Len(subtitle_files) < MaxSubs
    /\ subtitle_files' = Append(subtitle_files, SubtitleFile(file_name, encoding))
    /\ lastOp' = "add_subtitle_file"
    /\ lastInput' = <<>>
    /\ lastAt' = 0
    /\ command' = <<>>
    /\ calls' = 0
    /\ UNCHANGED <<cstate, streams, selected, option_summary>>
    /\ UNCHANGED <<jobVars, batchVars, probeVars, eqVars>>

\* command = container.build_command()
CallBuildCommand ==
    /\ cstate = "live"
    /\ command' = BuildCommand(streams, selected, subtitle_files)
    /\ option_summary' = SummariesAfter(streams, selected, option_summary)
    /\ lastOp' = "build_command"
    /\ lastInput' = <<>>
    /\ lastAt' = 0
    /\ calls' = IF calls < MaxCalls THEN calls + 1 ELSE calls
    /\ UNCHANGED <<cstate, streams, selected, subtitle_files>>
    /\ UNCHANGED <<jobVars, batchVars, probeVars, eqVars>>

NextSel ==
    \/ \E sel \in SelLists : Construct(sel)
    \/ \E index_list \in SelLists : AssignSelected(index_list)

SpecSel == InitSel /\ [][NextSel]_vars

\* the selection is the one given to __init__, the default one, or none
NextCmd ==
    \/ \E sel \in SelLists : Construct(sel)
    \/ \E index_list \in {<<>>} : AssignSelected(index_list)
    \/ \E encoding \in SubtitleEncodings : AddSubtitleFile("subs.srt", encoding)
    \/ CallBuildCommand

SpecCmd == InitCmd /\ [][NextCmd]_vars

----------------------------------------------------------------------------
(* The -progress report and Container.progress *)

\* The report is a sequence of pieces.  "out_" and "time_ms" are the two
\* halves of the key out_time_ms, "=", the digits and "\n" are single bytes,
\* and "OTHER" is a run of complete lines with other keys (frame=, fps=, ...,
\* progress=continue), OtherLen bytes in all.
Digits == {"0", "1", "2", "3", "4", "5", "6", "7", "8", "9"}
Window == 512        \* seek(-512, os.SEEK_END), readlines(512)
OtherLen == 512      \* bytes of one run of lines with other keys
MaxLines == 2        \* most lines (or runs of lines) ffmpeg writes in a run
MaxRaised == 2       \* most queries answered by ProgressFinishedError

ByteLen(piece) ==
    IF piece = "out_" THEN 4 ELSE IF piece = "time_ms" THEN 7
    ELSE IF piece = "OTHER" THEN OtherLen ELSE 1

RECURSIVE TotalLen(_)
TotalLen(rep) == IF rep = <<>> THEN 0 ELSE ByteLen(Head(rep)) + TotalLen(Tail(rep))

\* what a reader gets from a whole piece, and from the end of a piece whose
\* beginning lies before the read position ("junk": bytes that hold no "=",
\* no newline and not the key)
Whole(piece) == IF piece = "OTHER" THEN <<"junk", "\n">> ELSE <<piece>>
EndOf(piece) == IF piece = "OTHER" THEN <<"junk", "\n">> ELSE <<"junk">>

\* the bytes from position `skip` of the report to its end
RECURSIVE ReadFrom(_, _)
ReadFrom(rep, skip) ==
    IF rep = <<>> THEN <<>>
    ELSE IF skip <= 0 THEN Whole(Head(rep)) \o ReadFrom(Tail(rep), 0)
    ELSE IF skip >= ByteLen(Head(rep)) THEN ReadFrom(Tail(rep), skip - ByteLen(Head(rep)))
    ELSE EndOf(Head(rep)) \o ReadFrom(Tail(rep), 0)

\* a faulty read that starts at the beginning of the file whatever its size
ReadWindowWhole(rep) == ReadFrom(rep, 0)

\* lines 306-310: seek to 512 bytes before the end, or to the start when the
\* file is shorter, and read to the end
ReadWindow(rep) ==
    IF TotalLen(rep) >= Window THEN ReadFrom(rep, TotalLen(rep) - Window)
    ELSE ReadFrom(rep, 0)

\* readlines and strip(os.linesep): the lines without their newline, the last
\* one being whatever follows the last newline, when something does
RECURSIVE Lines(_, _)
Lines(bytes, cur) ==
    IF bytes = <<>> THEN (IF cur = <<>> THEN <<>> ELSE <<cur>>)
    ELSE IF Head(bytes) = "\n" THEN <<cur>> \o Lines(Tail(bytes), <<>>)
    ELSE Lines(Tail(bytes), Append(cur, Head(bytes)))

\* line.split('='): the fields of a line
RECURSIVE Split(_, _)
Split(line, cur) ==
    IF line = <<>> THEN <<cur>>
    ELSE IF Head(line) = "=" THEN <<cur>> \o Split(Tail(line), <<>>)
    ELSE Split(Tail(line), Append(cur, Head(line)))

DigitVal(d) ==
    CASE d = "0" -> 0 [] d = "1" -> 1 [] d = "2" -> 2 [] d = "3" -> 3 [] d = "4" -> 4
      [] d = "5" -> 5 [] d = "6" -> 6 [] d = "7" -> 7 [] d = "8" -> 8 [] d = "9" -> 9

\* int(text) of a text of digits; anything else is a ValueError
IsInt(text) == text /= <<>> /\ \A p \in 1..Len(text) : text[p] \in Digits
RECURSIVE IntOf(_)
IntOf(text) ==
    IF text = <<>> THEN 0
    ELSE 10 * IntOf(SubSeq(text, 1, Len(text) - 1)) + DigitVal(text[Len(text)])

Value(n) == [kind |-> "value", value |-> n]
Raised(error) == [kind |-> error, value |-> 0]

\* lines 313-319: the last line whose first field is out_time_ms decides
RECURSIVE ScanBack(_, _)
ScanBack(line_list, p) ==
    IF p = 0 THEN Value(0)
    ELSE LET fields == Split(line_list[p], <<>>)
         IN  IF fields[1] = <<"out_", "time_ms">>
             THEN IF Len(fields) < 2 THEN Raised("IndexError")
                  ELSE IF ~IsInt(fields[2]) THEN Raised("ValueError")
                  ELSE Value(IntOf(fields[2]))
             ELSE ScanBack(line_list, p - 1)

\* a faulty query that reads the report also after the process has exited
ProgressNoExitCheck(proc, rep) ==
    IF proc = "none" THEN Value(0)
    ELSE LET line_list == Lines(ReadWindow(rep), <<>>)
         IN  ScanBack(line_list, Len(line_list))

\* Container.progress: the value returned or the exception raised
Progress(proc, rep) ==
    IF proc = "none" THEN Value(0)
    ELSE IF proc = "exited" THEN Raised("ProgressFinishedError")
    ELSE LET line_list == Lines(ReadWindow(rep), <<>>)
         IN  ScanBack(line_list, Len(line_list))

----------------------------------------------------------------------------
(* ffmpeg writing the report *)

\* str(n), for the numbers ffmpeg writes
RECURSIVE DigitsOf(_)
DigitsOf(n) ==
    LET d == CHOOSE c \in Digits : DigitVal(c) = n % 10
    IN  IF n < 10 THEN <<d>> ELSE Append(DigitsOf(n \div 10), d)

OutTimeLine(n) == <<"out_", "time_ms", "=">> \o DigitsOf(n) \o <<"\n">>

ReportValues == {5, 12}                  \* the out_time_ms values of a run
Durations == {10}                        \* Container.microseconds of the containers

NoResult == [kind |-> "none", value |-> 0]

Jobs == DOMAIN process

LinesBegun(j) ==
    Cardinality({p \in 1..Len(report[j]) : report[j][p] \in {"\n", "OTHER"}})
    + (IF pending[j] /= <<>> THEN 1 ELSE 0)

\* Container.convert: Popen of the command
Convert(j) ==
    /\ process' = [process EXCEPT ![j] = "running"]
    /\ UNCHANGED <<microseconds, report, pending, lastOut, result, prevResult, raisedCount>>

\* the variables of the Container model and of the loop, left alone by a job
ContainerLeftAlone ==
    UNCHANGED <<cstate, streams, selected, subtitle_files, option_summary, command,
                lastInput, lastAt, calls, probeVars, eqVars>>

Op(name) ==
    /\ lastOp' = name
    /\ ContainerLeftAlone
    /\ UNCHANGED jobMono

\* ffmpeg starts an out_time_ms line with a larger value than the last and
\* writes its first piece
FfmpegBeginOutTime(j, n) ==
    /\ process[j] = "running"
    /\ pending[j] = <<>>
    /\ LinesBegun(j) < MaxLines
    /\ n > lastOut[j]
    /\ lastOut' = [lastOut EXCEPT ![j] = n]
    /\ report' = [report EXCEPT ![j] = Append(@, Head(OutTimeLine(n)))]
    /\ pending' = [pending EXCEPT ![j] = Tail(OutTimeLine(n))]
    /\ UNCHANGED <<microseconds, process, result, prevResult, raisedCount>>
    /\ Op("ffmpeg")
    /\ UNCHANGED batchVars

\* ffmpeg writes a run of lines with other keys
FfmpegWriteOther(j) ==
    /\ process[j] = "running"
    /\ pending[j] = <<>>
    /\ LinesBegun(j) < MaxLines
    /\ report' = [report EXCEPT ![j] = Append(@, "OTHER")]
    /\ UNCHANGED <<microseconds, process, pending, lastOut, result, prevResult, raisedCount>>
    /\ Op("ffmpeg")
    /\ UNCHANGED batchVars

\* ffmpeg writes the next piece of the line
FfmpegWrite(j) ==
    /\ process[j] = "running"
    /\ pending[j] /= <<>>
    /\ report' = [report EXCEPT ![j] = Append(@, Head(pending[j]))]
    /\ pending' = [pending EXCEPT ![j] = Tail(@)]
    /\ UNCHANGED <<microseconds, process, lastOut, result, prevResult, raisedCount>>
    /\ Op("ffmpeg")
    /\ UNCHANGED batchVars

\* the ffmpeg process exits
FfmpegExit(j) ==
    /\ process[j] = "running"
    /\ process' = [process EXCEPT ![j] = "exited"]
    /\ UNCHANGED <<microseconds, report, pending, lastOut, result, prevResult, raisedCount>>
    /\ Op("ffmpeg")
    /\ UNCHANGED batchVars

\* the history of the queries of one container
Record(j, r) ==
    /\ result' = [result EXCEPT ![j] = r]
    /\ prevResult' = [prevResult EXCEPT ![j] = result[j]]
    /\ raisedCount' = [raisedCount EXCEPT
                          ![j] = IF r.kind = "ProgressFinishedError" THEN @ + 1 ELSE @]

----------------------------------------------------------------------------
(* SpecJob: one Container, its process and a caller of Container.progress *)

IdleSel ==
    /\ cstate = "live" /\ streams = <<>> /\ selected = <<>> /\ subtitle_files = <<>>
    /\ option_summary = <<>> /\ command = <<>> /\ lastOp = "none" /\ lastInput = <<>>
    /\ lastAt = 0 /\ calls = 0

InitJobs(ids) ==
    /\ microseconds \in [ids -> Durations]
    /\ process = [j \in ids |-> "none"]
    /\ report = [j \in ids |-> <<>>]
    /\ pending = [j \in ids |-> <<>>]
    /\ lastOut = [j \in ids |-> 0]
    /\ result = [j \in ids |-> NoResult]
    /\ prevResult = [j \in ids |-> NoResult]
    /\ raisedCount = [j \in ids |-> 0]

InitJob == IdleSel /\ InitJobs({1}) /\ IdleBatch /\ IdleProbe /\ IdleEq

\* the caller launches the container once
Launch(j) ==
    /\ process[j] = "none"
    /\ Convert(j)
    /\ Op("convert")
    /\ UNCHANGED batchVars

\* value = container.progress
QueryProgress(j) ==
    /\ raisedCount[j] < MaxRaised
    /\ Record(j, Progress(process[j], report[j]))
    /\ UNCHANGED <<microseconds, process, report, pending, lastOut>>
    /\ Op("progress")
    /\ UNCHANGED batchVars

NextJob ==
    \/ \E j \in Jobs : Launch(j)
    \/ \E j \in Jobs : QueryProgress(j)
    \/ \E j \in Jobs, n \in ReportValues : FfmpegBeginOutTime(j, n)
    \/ \E j \in Jobs : FfmpegWriteOther(j)
    \/ \E j \in Jobs : FfmpegWrite(j)
    \/ \E j \in Jobs : FfmpegExit(j)

SpecJob == InitJob /\ [][NextJob]_vars

----------------------------------------------------------------------------
(* SpecLife: one Container, with convert and progress called in any order *)

\* container.convert(), whatever self.process holds: a new Popen is stored
CallConvert(j) ==
    /\ Convert(j)
    /\ Op("convert")
    /\ UNCHANGED batchVars

NextLife ==
    \/ \E j \in Jobs : CallConvert(j)
    \/ \E j \in Jobs : QueryProgress(j)
    \/ \E j \in Jobs, n \in ReportValues : FfmpegBeginOutTime(j, n)
    \/ \E j \in Jobs : FfmpegWriteOther(j)
    \/ \E j \in Jobs : FfmpegWrite(j)
    \/ \E j \in Jobs : FfmpegExit(j)

SpecLife == InitJob /\ [][NextLife]_vars

----------------------------------------------------------------------------
(* SpecBatch: the polling loop of cli.convert *)

NumJobs == 2         \* containers the user confirmed for conversion

RECURSIVE SumOver(_, _)
SumOver(f, ids) ==
    IF ids = {} THEN 0
    ELSE LET j == CHOOSE k \in ids : TRUE IN f[j] + SumOver(f, ids \ {j})

\* total_ms, line 269
TotalMs == SumOver(microseconds, Jobs)

\* list.remove(x): the list without its first item equal to x
RemoveFirst(list, x) ==
    LET p == CHOOSE q \in 1..Len(list) : list[q] = x /\ \A r \in 1..(q - 1) : list[r] /= x
    IN  SubSeq(list, 1, p - 1) \o SubSeq(list, p + 1, Len(list))

Range(list) == {list[p] : p \in 1..Len(list)}

InitBatch ==
    /\ IdleSel
    /\ InitJobs(1..NumJobs)
    /\ pc = "menu"
    /\ running = [p \in 1..NumJobs |-> p]
    /\ it = 0
    /\ total_progress = 0
    /\ progress = 0
    /\ barJob = [j \in 1..NumJobs |-> 0]
    /\ barTotal = 0
    /\ errMessages = <<>>
    /\ tickStart = <<>>
    /\ polled = {}
    /\ counted = {}
    /\ jobMono = TRUE
    /\ IdleProbe /\ IdleEq

\* main_menu (filmalize.menus): every container it returns has been launched
MenuLaunch(j) ==
    /\ pc = "menu"
    /\ process[j] = "none"
    /\ Convert(j)
    /\ Op("convert")
    /\ UNCHANGED batchVars

\* lines 254-273: main_menu returns the list, the progress bars are created
MenuReturn ==
    /\ pc = "menu"
    /\ \A j \in Jobs : process[j] /= "none"
    /\ pc' = "while"
    /\ Op("main_menu")
    /\ UNCHANGED <<running, it, total_progress, progress, barJob, barTotal, errMessages,
                   tickStart, polled, counted>>
    /\ UNCHANGED jobVars

\* lines 276-278: `while running:` is true, total_progress = 0 and the for
\* loop takes an iterator over running
WhileEnter ==
    /\ pc = "while"
    /\ running /= <<>>
    /\ total_progress' = 0
    /\ it' = 0
    /\ pc' = "for"
    /\ tickStart' = running
    /\ polled' = {}
    /\ counted' = {}
    /\ Op("while")
    /\ UNCHANGED <<running, progress, barJob, barTotal, errMessages>>
    /\ UNCHANGED jobVars

\* lines 276, 297: `while running:` is false, pr_bar.finish()
WhileExit ==
    /\ pc = "while"
    /\ running = <<>>
    /\ pc' = "done"
    /\ barTotal' = TotalMs
    /\ Op("finish")
    /\ UNCHANGED <<running, it, total_progress, progress, barJob, errMessages,
                   tickStart, polled, counted>>
    /\ UNCHANGED jobVars

\* the container the iterator yields next: the item at its index
Current == running[it + 1]

\* lines 278-281, 292: the query returns a value
PollValue ==
    /\ pc = "for"
    /\ it < Len(running)
    /\ LET r == Progress(process[Current], report[Current])
       IN  /\ r.kind = "value"
           /\ progress' = r.value
           /\ barJob' = [barJob EXCEPT ![Current] = r.value]
           /\ total_progress' = total_progress + r.value
           /\ jobMono' = (jobMono /\ r.value >= barJob[Current])
    /\ it' = it + 1
    /\ polled' = polled \cup {Current}
    /\ counted' = counted \cup {Current}
    /\ lastOp' = "poll"
    /\ ContainerLeftAlone
    /\ UNCHANGED <<pc, running, barTotal, errMessages, tickStart>>
    /\ UNCHANGED jobVars

\* lines 278-292: the query raises ProgressFinishedError
PollFinished ==
    /\ pc = "for"
    /\ it < Len(running)
    /\ Progress(process[Current], report[Current]).kind = "ProgressFinishedError"
    /\ errMessages' = Append(errMessages, Current)
    /\ running' = RemoveFirst(running, Current)
    /\ progress' = microseconds[Current]
    /\ barJob' = [barJob EXCEPT ![Current] = microseconds[Current]]
    /\ total_progress' = total_progress + microseconds[Current]
    /\ it' = it + 1
    /\ polled' = polled \cup {Current}
    /\ counted' = counted \cup {Current}
    /\ Op("poll")
    /\ UNCHANGED <<pc, barTotal, tickStart>>
    /\ UNCHANGED jobVars

\* lines 280, 282: the query raises another exception, which nothing catches
PollError ==
    /\ pc = "for"
    /\ it < Len(running)
    /\ Progress(process[Current], report[Current]).kind \in {"IndexError", "ValueError"}
    /\ pc' = "raised"
    /\ it' = it + 1
    /\ polled' = polled \cup {Current}
    /\ Op("poll")
    /\ UNCHANGED <<running, total_progress, progress, barJob, barTotal, errMessages,
                   tickStart, counted>>
    /\ UNCHANGED jobVars

\* lines 278, 294-295: the iterator is exhausted, pr_bar.update, sleep
UpdateTotal ==
    /\ pc = "for"
    /\ it >= Len(running)
    /\ barTotal' = total_progress
    /\ pc' = "while"
    /\ Op("update")
    /\ UNCHANGED <<running, it, total_progress, progress, barJob, errMessages,
                   tickStart, polled, counted>>
    /\ UNCHANGED jobVars

NextBatch ==
    \/ \E j \in Jobs : MenuLaunch(j)
    \/ MenuReturn
    \/ WhileEnter
    \/ WhileExit
    \/ PollValue
    \/ PollFinished
    \/ PollError
    \/ UpdateTotal
    \/ \E j \in Jobs, n \in ReportValues : FfmpegBeginOutTime(j, n)
    \/ \E j \in Jobs : FfmpegWriteOther(j)
    \/ \E j \in Jobs : FfmpegWrite(j)
    \/ \E j \in Jobs : FfmpegExit(j)

SpecBatch == InitBatch /\ [][NextBatch]_vars

----------------------------------------------------------------------------
(* SpecProbe: making a Container, by from_dict or by __init__ itself *)

\* A duration is a number of seconds, held as a count of 1/Resolution s.
Resolution == 10000000
Million == 1000000

\* int(x) of the quotient a / b, b > 0: the fraction is dropped, towards zero
Trunc(a, b) == IF a >= 0 THEN a \div b ELSE -((-a) \div b)

\* int(duration * 1000000)
Microseconds(d) == Trunc(d * Million, Resolution)

\* the durations a caller or a probe gives: none, less than a microsecond,
\* one microsecond, more, and a negative one
DurationValues == {-10, 0, 5, 10, 25}

\* the format section of the probe: without a duration entry, or with one
InfoValues == {<<>>} \cup {<<d>> : d \in DurationValues}

\* float(info.get('format', {}).get('duration', 0))
DurationOf(format) == IF format = <<>> THEN 0 ELSE format[1]

InitProbe ==
    /\ \E strs \in StreamLists({"h264"}) : InitContainer(strs)

\* Container.__init__(file_name, duration, streams): lines 156-168
NewContainer(d) ==
    /\ ConstructSelection(<<>>)
    /\ duration' = d
    /\ microseconds' = <<Microseconds(d)>>
    /\ process' = <<"none">>
    /\ UNCHANGED <<report, pending, lastOut, result, prevResult, raisedCount>>
    /\ UNCHANGED <<info, batchVars, eqVars>>

\* a caller makes the Container itself
DirectInit(d) ==
    /\ lastOp = "none"
    /\ NewContainer(d)

\* ffprobe's answer arrives
Probe(format) ==
    /\ cstate = "new"
    /\ lastOp = "none"
    /\ info = <<>>
    /\ info' = format
    /\ lastOp' = "probe"
    /\ UNCHANGED <<cstate, streams, selected, subtitle_files, option_summary, command,
                   lastInput, lastAt, calls, duration>>
    /\ UNCHANGED <<jobVars, batchVars, eqVars>>

\* Container.from_dict(info): ProbeError when the duration is falsy
FromDictRaises ==
    /\ cstate = "new"
    /\ lastOp = "probe"
    /\ DurationOf(info) = 0
    /\ cstate' = "failed"
    /\ lastOp' = "from_dict"
    /\ UNCHANGED <<streams, selected, subtitle_files, option_summary, command,
                   lastInput, lastAt, calls>>
    /\ UNCHANGED <<jobVars, batchVars, probeVars, eqVars>>

\* Container.from_dict(info): cls(file_name, duration, streams, labels)
FromDict ==
    /\ lastOp = "probe"
    /\ DurationOf(info) /= 0
    /\ NewContainer(DurationOf(info))

NextProbe ==
    \/ \E d \in DurationValues : DirectInit(d)
    \/ \E format \in InfoValues : Probe(format)
    \/ FromDictRaises
    \/ FromDict

SpecProbe == InitProbe /\ [][NextProbe]_vars

----------------------------------------------------------------------------
(* SpecOpt: one video Stream, its custom_crf attribute and build_options *)

\* the values given for custom_crf: None, the lowest CRF x264 takes, the
\* default one, others
CrfValues == {None, 0, CRF, 23, 51}

\* the `number` build_command passes: video streams already added
StreamNumbers == {0, 1, 2}

InitOpt ==
    /\ cstate = "live"
    /\ \E codec \in VideoCodecs, custom_crf \in CrfValues :
           streams = <<Stream(0, "video", codec, custom_crf, None, None)>>
    /\ selected = <<>>
    /\ subtitle_files = <<>>
    /\ option_summary = <<NoSummary>>
    /\ command = <<>>
    /\ lastOp = "none"
    /\ lastInput = <<>>
    /\ lastAt = 0
    /\ calls = 0
    /\ IdleJobs /\ IdleBatch /\ IdleProbe /\ IdleEq

\* stream.custom_crf = value
SetCustomCrf(value) ==
    /\ streams' = [streams EXCEPT ![1].custom_crf = value]
    /\ lastOp' = "set_custom_crf"
    /\ UNCHANGED <<cstate, selected, subtitle_files, option_summary, command, lastInput,
                   lastAt, calls>>
    /\ UNCHANGED <<jobVars, batchVars, probeVars, eqVars>>

\* options = stream.build_options(number)
CallBuildOptions(number) ==
    /\ command' = BuildOptions(streams[1], number).options
    /\ option_summary' = <<BuildOptions(streams[1], number).summary>>
    /\ lastOp' = "build_options"
    /\ UNCHANGED <<cstate, streams, selected, subtitle_files, lastInput, lastAt, calls>>
    /\ UNCHANGED <<jobVars, batchVars, probeVars, eqVars>>

NextOpt ==
    \/ \E value \in CrfValues : SetCustomCrf(value)
    \/ \E number \in StreamNumbers : CallBuildOptions(number)

SpecOpt == InitOpt /\ [][NextOpt]_vars

----------------------------------------------------------------------------
(* SpecEq: two Containers and EqualityMixin.__eq__ *)

\* An object is its __dict__: a function from attribute names to values.
\* An object that is compared by identity (a temporary file, a Popen, a
\* ProgressBar) is the number of the Container it was made for.

FileNames == {"a.mkv", "b.mkv"}
Selections == {<<>>, <<0>>}

\* Container.__init__: the attributes it sets (streams, labels and the other
\* durable ones are alike in both Containers and stand behind file_name)
NewObject(id, file_name, sel) ==
    [file_name |-> file_name, _selected |-> sel, temp_file |-> id, process |-> None,
     equality_ignore |-> {"temp_file", "process"}]

\* the keys __eq__ looks at: those of self that self does not ignore
ComparedKeys(self) == DOMAIN self \ self.equality_ignore

\* EqualityMixin.__eq__(self, other) for two Containers: other.__dict__[key]
\* raises KeyError for a key of self that other lacks
Eq(self, other) ==
    IF \E key \in ComparedKeys(self) : key \notin DOMAIN other THEN "KeyError"
    ELSE IF \A key \in ComparedKeys(self) : other[key] = self[key] THEN "True"
    ELSE "False"

InitEq ==
    /\ IdleSel /\ IdleJobs /\ IdleBatch /\ IdleProbe
    /\ \E f1, f2 \in FileNames, s1, s2 \in Selections :
           objs = <<NewObject(1, f1, s1), NewObject(2, f2, s2)>>
    /\ eqResult = "none"

EqFrame ==
    /\ UNCHANGED <<cstate, streams, selected, subtitle_files, option_summary, command,
                   lastAt, calls>>
    /\ UNCHANGED <<jobVars, batchVars, probeVars>>

\* cli.convert, line 265: container.pr_bar = ProgressBar(...)
AttachBar(i) ==
    /\ objs' = [objs EXCEPT ![i] = [pr_bar |-> i] @@ objs[i]]
    /\ lastOp' = "pr_bar"
    /\ UNCHANGED <<eqResult, lastInput>>
    /\ EqFrame

\* Container.convert: self.process = Popen(...)
ObjConvert(i) ==
    /\ objs' = [objs EXCEPT ![i].process = i]
    /\ lastOp' = "convert"
    /\ UNCHANGED <<eqResult, lastInput>>
    /\ EqFrame

\* objs[i] == objs[j]
Compare(i, j) ==
    /\ eqResult' = Eq(objs[i], objs[j])
    /\ lastOp' = "eq"
    /\ lastInput' = <<i, j>>
    /\ UNCHANGED objs
    /\ EqFrame

NextEq ==
    \/ \E i \in {1, 2} : AttachBar(i)
    \/ \E i \in {1, 2} : ObjConvert(i)
    \/ \E i, j \in {1, 2} : Compare(i, j)

SpecEq == InitEq /\ [][NextEq]_vars

----------------------------------------------------------------------------
(* Claims about the selection and the command (SpecSel) *)

IndexSet(strs) == {strs[p].index : p \in 1..Len(strs)}
\* the type of the stream that carries an index (indexes are distinct)
TypeAt(strs, index) == strs[CHOOSE p \in 1..Len(strs) : strs[p].index = index].type

\* an index the setter has to refuse
Refused(strs, index) ==
    index \notin IndexSet(strs) \/ TypeAt(strs, index) \notin {"audio", "video", "subtitle"}

\* C1: an assignment to selected whose list holds an index of no stream, or of
\* a stream that is not audio, video or subtitle, raises and leaves selected
\* exactly as it was, wherever the refused index stands in the list: no list
\* with such an index is stored, and an assignment that raises changes nothing.
C1_SetterAtomic ==
    [][/\ lastOp' = "assign" => \A p \in 1..Len(lastInput') : ~Refused(streams, lastInput'[p])
       /\ lastOp' = "assign_raised" => selected' = selected]_vars

\* a rejected assignment whose refused index comes after an acceptable one,
\* on a container that had a selection to lose
C1_Witness ==
    /\ lastOp = "assign_raised"
    /\ lastAt = 2
    /\ selected /= <<>>

\* C10: in a constructed Container every entry of selected is the index of an
\* audio, video or subtitle stream of streams, and selected is in ascending
\* order (sorted() keeps an index that was given twice).
C10_SelectedValidSorted ==
    cstate = "live" =>
        /\ \A p \in 1..Len(selected) : ~Refused(streams, selected[p])
        /\ \A p \in 1..(Len(selected) - 1) : selected[p] <= selected[p + 1]

\* an accepted assignment of a list given in descending order
C10_Witness ==
    /\ cstate = "live"
    /\ lastOp = "assign"
    /\ Len(lastInput) = 2
    /\ lastInput[1] > lastInput[2]
    /\ selected = <<lastInput[2], lastInput[1]>>

\* the tokens that follow each occurrence of a key token, in order
RECURSIVE After(_, _, _)
After(cmd, i, key) ==
    IF i >= Len(cmd) THEN <<>>
    ELSE IF cmd[i] = key THEN <<cmd[i + 1]>> \o After(cmd, i + 1, key)
    ELSE After(cmd, i + 1, key)

\* the tokens with a given prefix, in order
RECURSIVE WithPrefix(_, _, _)
WithPrefix(cmd, i, pre) ==
    IF i > Len(cmd) THEN <<>>
    ELSE IF cmd[i][1] = pre THEN <<cmd[i]>> \o WithPrefix(cmd, i + 1, pre)
    ELSE WithPrefix(cmd, i + 1, pre)

\* the stream indexes of the `-map 0:<index>` pairs, in the order of the command
RECURSIVE MappedFrom(_, _)
MappedFrom(targets, p) ==
    IF p > Len(targets) THEN <<>>
    ELSE IF targets[p][1] = "0:" THEN <<targets[p][2]>> \o MappedFrom(targets, p + 1)
    ELSE MappedFrom(targets, p + 1)

MappedStreams(cmd) == MappedFrom(After(cmd, 1, S("-map")), 1)

\* the input numbers of the `-map <n>:0` pairs, in the order of the command
RECURSIVE MappedFilesFrom(_, _)
MappedFilesFrom(targets, p) ==
    IF p > Len(targets) THEN <<>>
    ELSE IF targets[p][3] = ":0" THEN <<targets[p][2]>> \o MappedFilesFrom(targets, p + 1)
    ELSE MappedFilesFrom(targets, p + 1)

MappedFiles(cmd) == MappedFilesFrom(After(cmd, 1, S("-map")), 1)

\* the mapped stream indexes of one type, in mapping order
RECURSIVE OfType(_, _, _, _)
OfType(strs, mapped, p, type) ==
    IF p > Len(mapped) THEN <<>>
    ELSE IF TypeAt(strs, mapped[p]) = type
         THEN <<mapped[p]>> \o OfType(strs, mapped, p + 1, type)
    ELSE OfType(strs, mapped, p + 1, type)

SlotPrefix(type) ==
    IF type = "video" THEN "-c:v:" ELSE IF type = "audio" THEN "-c:a:" ELSE "-c:s:"

\* the tokens of a command from the codec slot option of a type and number up
\* to the next codec slot option (or the output path)
IsSlot(tok) == tok[1] \in {"-c:v:", "-c:a:", "-c:s:"}
SlotStart(cmd, type, number) ==
    {i \in 1..Len(cmd) : cmd[i] = Fmt(SlotPrefix(type), number, "")}
SlotEnd(cmd, i) ==
    CHOOSE j \in (i + 1)..Len(cmd) :
        /\ IsSlot(cmd[j]) \/ j = Len(cmd)
        /\ \A k \in (i + 1)..(j - 1) : ~IsSlot(cmd[k])
SlotTokens(cmd, i) == SubSeq(cmd, i, SlotEnd(cmd, i) - 1)

NoRepeat(sel) == \A p, q \in 1..Len(sel) : p /= q => sel[p] /= sel[q]

\* the tokens and summary a stream ought to get in slot k, read off the
\* decision policy of its type
Expected(s, number) ==
    CASE s.type = "video" ->
           IF s.custom_crf = None /\ s.codec = C_VIDEO
           THEN <<Fmt("-c:v:", number, ""), S("copy")>>
           ELSE <<Fmt("-c:v:", number, ""), S("libx264"), S("-preset"), S(PRESET),
                  S("-crf"), Fmt("", IF s.custom_crf = None THEN CRF ELSE s.custom_crf, ""),
                  S("-pix_fmt"), S("yuv420p")>>
      [] s.type = "audio" ->
           IF s.custom_bitrate = None /\ s.codec = C_AUDIO
           THEN <<Fmt("-c:a:", number, ""), S("copy")>>
           ELSE <<Fmt("-c:a:", number, ""), S(C_AUDIO), Fmt("-b:a:", number, ""),
                  Fmt("", IF s.custom_bitrate /= None THEN s.custom_bitrate
                          ELSE IF s.label_bitrate /= None THEN s.label_bitrate
                          ELSE BITRATE, "k")>>
      [] OTHER ->
           IF s.codec = C_SUBS
           THEN <<Fmt("-c:s:", number, ""), S("copy")>>
           ELSE <<Fmt("-c:s:", number, ""), S(C_SUBS)>>

StreamAt(strs, index) == strs[CHOOSE p \in 1..Len(strs) : strs[p].index = index]

\* C2: in the command of build_command, for each type the k-th codec slot
\* option (-c:v:k, -c:a:k, -c:s:k) is followed by the options of the k-th
\* stream of that type in `-map 0:<index>` order, whatever the order of the
\* streams list (stated for selections that name no index twice).
C2_OptionsFollowMapOrder ==
    (lastOp = "build_command" /\ NoRepeat(selected)) =>
        \A type \in {"video", "audio", "subtitle"} :
            LET mapped == OfType(streams, MappedStreams(command), 1, type)
            IN  \A k \in 1..Len(mapped) :
                    \E i \in SlotStart(command, type, k - 1) :
                        SlotTokens(command, i) = Expected(StreamAt(streams, mapped[k]), k - 1)

\* C3: the command holds exactly one `-map 0:<index>` pair per selected stream,
\* in ascending index order, exactly one `-map <n>:0` pair per subtitle file
\* with n = 1 + its position, and per type as many codec slot options as mapped
\* streams of the type (subtitle files counted with the subtitle streams),
\* numbered 0, 1, 2, ... in the order of the command.
C3_OneMapOneSlot ==
    lastOp = "build_command" =>
        LET mapped == MappedStreams(command)
            files == MappedFiles(command)
        IN  /\ \A p \in 1..(Len(mapped) - 1) : mapped[p] < mapped[p + 1]
            /\ {mapped[p] : p \in 1..Len(mapped)} = {selected[p] : p \in 1..Len(selected)}
            /\ files = [p \in 1..Len(subtitle_files) |-> p]
            /\ Len(After(command, 1, S("-map"))) = Len(mapped) + Len(files)
            /\ \A type \in {"video", "audio", "subtitle"} :
                   LET slots == WithPrefix(command, 1, SlotPrefix(type))
                       n == Len(OfType(streams, mapped, 1, type))
                            + (IF type = "subtitle" THEN Len(files) ELSE 0)
                   IN  /\ Len(slots) = n
                       /\ \A k \in 1..Len(slots) : slots[k][2] = k - 1

----------------------------------------------------------------------------
(* Claims about Container.progress (SpecJob) *)

\* C4: within one run the values returned by successive progress queries
\* never decrease, while ffmpeg appends out_time_ms lines of increasing value,
\* also when a query meets a partly written last line or a trailing window
\* of 512 bytes without a complete out_time_ms line.
C4_ProgressNonDecreasing ==
    \A j \in Jobs :
        (prevResult[j].kind = "value" /\ result[j].kind = "value")
            => prevResult[j].value <= result[j].value

\* C5: ProgressFinishedError is raised exactly once per job: by the first
\* progress query after the process has exited and by no later query.
C5_RaisedOnce == \A j \in Jobs : raisedCount[j] <= 1

\* C5 (amended): every progress query made after the process has exited
\* raises ProgressFinishedError, the first one and each later one.
C5_RaisedOnEveryQueryAfterExit ==
    [][\A j \in Jobs :
          (lastOp' = "progress" /\ process[j] = "exited")
              => /\ result'[j].kind = "ProgressFinishedError"
                 /\ raisedCount'[j] = raisedCount[j] + 1]_vars

\* a second query after the exit, answered like the first
C5_Witness ==
    \E j \in Jobs :
        /\ process[j] = "exited"
        /\ lastOp = "progress"
        /\ prevResult[j].kind = "ProgressFinishedError"
        /\ result[j].kind = "ProgressFinishedError"
        /\ raisedCount[j] = 2

----------------------------------------------------------------------------
(* Claims about the polling loop (SpecBatch) *)

TickDone == lastOp = "update"            \* pr_bar.update(total_progress) has just run
LoopOver == pc \in {"done", "raised"}    \* the while loop has been left

\* C6: a job that has raised ProgressFinishedError counts with its full
\* microseconds, so that on the tick on which the last job ends the aggregate
\* given to the total bar is the sum of the microseconds of all containers.
C6_AggregateReachesTotal ==
    (TickDone /\ running = <<>>) => barTotal = TotalMs

\* C7: on every tick each container that was in running when the tick began
\* is queried and its value is added to the aggregate of that tick, also on
\* a tick on which another container raises ProgressFinishedError.
C7_EveryActiveJobPolled ==
    TickDone => (Range(tickStart) \subseteq polled /\ Range(tickStart) \subseteq counted)

\* C8: the loop is left only when running is empty: every container has then
\* been removed once, its diagnostics written, and no process is still running.
C8_LoopEndsWhenAllJobsEnded ==
    LoopOver =>
        /\ running = <<>>
        /\ \A j \in Jobs : process[j] = "exited"
        /\ \A j \in Jobs : Cardinality({p \in 1..Len(errMessages) : errMessages[p] = j}) = 1

\* C9: the aggregate given to the total bar is at most the sum of the
\* microseconds of all containers, and the value given to the bar of a
\* container is at most its microseconds.
C9_BarsBounded ==
    /\ barTotal <= TotalMs
    /\ \A j \in Jobs : barJob[j] <= microseconds[j]

----------------------------------------------------------------------------
(* Claims about making a Container (SpecProbe) *)

\* C11: from_dict fails when the probe has no duration or a zero one, and
\* every Container that exists, made by from_dict or by __init__ itself,
\* has a duration above 0 and microseconds above 0.
C11_DurationPositive ==
    /\ (lastOp = "from_dict" /\ DurationOf(info) = 0) => cstate = "failed"
    /\ cstate = "live" => (duration > 0 /\ microseconds[1] > 0)

----------------------------------------------------------------------------
(* Claims about the default selection (SpecSel) *)

\* the positions in the list of the streams of a type
PositionsOf(strs, type) == {p \in 1..Len(strs) : strs[p].type = type}

\* the index of the first stream of a type in list order, if there is one
FirstOf(strs, type) ==
    {strs[p].index : p \in {q \in PositionsOf(strs, type) :
                                \A r \in PositionsOf(strs, type) : q <= r}}

\* C12: a Container made without a selection selects exactly the first audio
\* stream and the first video stream of its list, each if there is one, and
\* making it does not fail when there is none.
C12_DefaultSelection ==
    (lastOp = "init" /\ lastInput = <<>>) =>
        /\ cstate = "live"
        /\ Range(selected) = FirstOf(streams, "audio") \cup FirstOf(streams, "video")
        /\ Len(selected) = Cardinality(Range(selected))

\* a Container of two video streams, the later one with the lower index, has
\* been made without a selection
C12_Witness ==
    /\ lastOp = "init" /\ lastInput = <<>>
    /\ Len(streams) = 2
    /\ streams[1].type = "video" /\ streams[2].type = "video"
    /\ streams[2].index < streams[1].index
    /\ selected = <<streams[1].index>>

----------------------------------------------------------------------------
(* Claims about build_options (SpecOpt) *)

\* the encoder ffmpeg uses for a target video codec
EncoderOf(codec) == IF codec = "h264" THEN "libx264" ELSE codec

\* the tokens say copy
TokensCopy(cmd) == Len(cmd) = 2 /\ cmd[1][1] = "-c:v:" /\ cmd[2] = S("copy")

\* the tokens say transcode to the default codec with this CRF
TokensTranscode(cmd, crf) ==
    /\ Len(cmd) >= 6
    /\ cmd[1][1] = "-c:v:"
    /\ cmd[2] = S(EncoderOf(C_VIDEO))
    /\ cmd[5] = S("-crf")
    /\ cmd[6] = Fmt("", crf, "")

\* C13: for a video stream build_options decides copy exactly when
\* custom_crf is unset and the codec is the default video codec; otherwise
\* it transcodes to the default codec with the CRF custom_crf when that is
\* set, whatever its value, and the default CRF when not; option_summary
\* tells the decision and the CRF of the tokens.
C13_VideoOptions ==
    lastOp = "build_options" =>
        LET s == streams[1]
            unset == s.custom_crf = None
            crf == IF unset THEN CRF ELSE s.custom_crf
        IN  /\ TokensCopy(command) <=> (unset /\ s.codec = C_VIDEO)
            /\ ~TokensCopy(command) => TokensTranscode(command, crf)
            /\ TokensCopy(command) => option_summary[1] = <<"copy", "", "", None>>
            /\ ~TokensCopy(command) =>
                   option_summary[1] = <<"transcode", C_VIDEO, "crf", command[6][2]>>

----------------------------------------------------------------------------
(* Claims about equality (SpecEq) *)

\* the durable fields of two Containers match
DurableMatch(a, b) == a.file_name = b.file_name /\ a._selected = b._selected

\* C14: comparing two Containers never fails, says equal exactly when
\* their durable fields match, whatever their temporary files and processes
\* and whatever attributes one of them has that the other lacks, and
\* gives the same answer in the other direction.
C14_EqualitySymmetricTotal ==
    lastOp = "eq" =>
        LET a == objs[lastInput[1]]
            b == objs[lastInput[2]]
        IN  /\ eqResult /= "KeyError"
            /\ eqResult = "True" <=> DurableMatch(a, b)
            /\ eqResult = Eq(b, a)

----------------------------------------------------------------------------
(* Claims about the first progress queries (SpecJob) *)

\* the report holds a whole out_time_ms line: the key, "=", digits, "\n"
HasEntry(rep) ==
    \E p, q \in 1..Len(rep) :
        /\ q >= p + 4
        /\ rep[p] = "out_" /\ rep[p + 1] = "time_ms" /\ rep[p + 2] = "="
        /\ \A k \in (p + 3)..(q - 1) : rep[k] \in Digits
        /\ rep[q] = "\n"

\* C15: a progress query returns 0, and raises nothing, for a container
\* that has not been started and for a running one whose report holds no
\* out_time_ms entry yet.
C15_ZeroBeforeFirstEntry ==
    \A j \in Jobs :
        lastOp = "progress" =>
            /\ process[j] = "none" => result[j] = Value(0)
            /\ (process[j] = "running" /\ ~HasEntry(report[j])) => result[j] = Value(0)

----------------------------------------------------------------------------
(* Claims about the life of a job (SpecLife) *)

\* C16: whatever convert and progress calls are made, a container that has
\* been launched is not launched again, so it never has a second process,
\* and a container whose process has exited is never running again.
C16_LaunchedOnce ==
    [][\A j \in Jobs :
          /\ process[j] /= "none" => lastOp' /= "convert"
          /\ process[j] = "exited" => process'[j] = "exited"]_vars

----------------------------------------------------------------------------
(* Claims about the effect of build_command (SpecCmd) *)

----------------------------------------------------------------------------
(* Claims about the aggregate from tick to tick (SpecBatch) *)

\* C18: as long as no container's progress value has been below the one
\* before it, the aggregate given to the total bar on a tick is at least the
\* one given on the tick before, also on the tick after a container has
\* ended and been removed from running.
C18_AggregateNonDecreasing ==
    [][(lastOp' = "update" /\ jobMono') => barTotal <= barTotal']_vars

====
